---- MODULE Spec2Model ----
(***************************************************************************)
(* Qi-Link: the Zi Wei Dou Shu star placement engine (FateEngine) and the  *)
(* remedy engine (Alchemist), modelled as operations applied one call at a *)
(* time.  A call is taken from the idle state, leaves its arguments and    *)
(* its result in `call`, and Return goes back to idle.                     *)
(*                                                                         *)
(* Chinese symbols are written in pinyin: stems jia..gui, branches         *)
(* zi..hai, stars by their MajorStar enum names.                           *)
(***************************************************************************)
EXTENDS Integers, Sequences, FiniteSets, TLC

VARIABLES ZI_WEI_TABLE, IMBALANCE_MATRIX, engines, call

vars == <<ZI_WEI_TABLE, IMBALANCE_MATRIX, engines, call>>

(* ---------------------------------------------------------------- bounds *)

\* number of FateEngine objects constructed in one run
MaxEngines == 2

\* margin by which a lunar day handed to get_zi_wei_location may leave 1..30
DayMargin == 2

\* longest base remedy handed to _adjust_remedy_for_environment
MaxBaseLen == 3

\* highest count of one element in the element distribution of a profile
MaxCount == 1

(* ------------------------------------------------------- python helpers *)

\* dict.get(key, default)
DictGet(d, k, default) == IF k \in DOMAIN d THEN d[k] ELSE default

\* the empty dict
EmptyDict == [k \in {} |-> 0]

Min2(a, b) == IF a < b THEN a ELSE b

Max2(a, b) == IF a > b THEN a ELSE b

(* ---------------------------------------------------------------- models *)

\* MajorStar: the fourteen major stars
MajorStar == {"ZI_WEI", "TIAN_JI", "TAI_YANG", "WU_QU", "TIAN_TONG", "LIAN_ZHEN",
              "TIAN_FU", "TAI_YIN", "TAN_LANG", "JU_MEN", "TIAN_XIANG",
              "TIAN_LIANG", "QI_SHA", "PO_JUN"}

\* Element, in the order of the enum
Element == <<"METAL", "WOOD", "WATER", "FIRE", "EARTH">>

Elements == {Element[i] : i \in DOMAIN Element}

\* mutant: Earth generating Water, which leaves Metal out of the cycle
generates_short(e) ==
    CASE e = "METAL" -> "WATER"
      [] e = "WATER" -> "WOOD"
      [] e = "WOOD"  -> "FIRE"
      [] e = "FIRE"  -> "EARTH"
      [] e = "EARTH" -> "WATER"

\* Element.generates
generates(e) ==
    CASE e = "METAL" -> "WATER"
      [] e = "WATER" -> "WOOD"
      [] e = "WOOD"  -> "FIRE"
      [] e = "FIRE"  -> "EARTH"
      [] e = "EARTH" -> "METAL"

\* Element.controls
controls(e) ==
    CASE e = "METAL" -> "WOOD"
      [] e = "WOOD"  -> "EARTH"
      [] e = "WATER" -> "FIRE"
      [] e = "FIRE"  -> "METAL"
      [] e = "EARTH" -> "WATER"

\* min(d, key=d.get): the first key, in the order of the enum, of least count
MinKey(d) ==
    LET i == CHOOSE i \in DOMAIN Element :
                 /\ Element[i] \in DOMAIN d
                 /\ \A j \in DOMAIN Element :
                       Element[j] \in DOMAIN d =>
                          \/ d[Element[i]] < d[Element[j]]
                          \/ (d[Element[i]] = d[Element[j]] /\ i <= j)
    IN  Element[i]

\* FateProfile.weakest_element
weakest_element(fate) ==
    IF DOMAIN fate.element_distribution = {}
    THEN "EARTH"
    ELSE MinKey(fate.element_distribution)

(* ------------------------------------------------------------ FateEngine *)

BRANCHES == <<"zi", "chou", "yin", "mao", "chen", "si",
              "wu", "wei", "shen", "you", "xu", "hai">>

STEMS == <<"jia", "yi", "bing", "ding", "wu", "ji", "geng", "xin", "ren", "gui">>

\* BRANCHES[idx] of the code, whose lists are 0-based
BranchAt(idx) == BRANCHES[idx + 1]

\* the dict literal: (year stem, life palace branch) -> bureau; the code's
\* key is the two characters concatenated
WU_XING_JU_LITERAL ==
    <<"jia", "zi">> :> 2 @@ <<"jia", "chou">> :> 6 @@ <<"jia", "yin">> :> 6 @@ <<"jia", "mao">> :> 5 @@
    <<"jia", "chen">> :> 5 @@ <<"jia", "si">> :> 3 @@ <<"jia", "wu">> :> 3 @@ <<"jia", "wei">> :> 5 @@
    <<"jia", "shen">> :> 5 @@ <<"jia", "you">> :> 4 @@ <<"jia", "xu">> :> 4 @@ <<"jia", "hai">> :> 2 @@
    <<"ji", "zi">> :> 2 @@ <<"ji", "chou">> :> 6 @@ <<"ji", "yin">> :> 6 @@ <<"ji", "mao">> :> 5 @@
    <<"ji", "chen">> :> 5 @@ <<"ji", "si">> :> 3 @@ <<"ji", "wu">> :> 3 @@ <<"ji", "wei">> :> 5 @@
    <<"ji", "shen">> :> 5 @@ <<"ji", "you">> :> 4 @@ <<"ji", "xu">> :> 4 @@ <<"ji", "hai">> :> 2 @@
    <<"yi", "zi">> :> 4 @@ <<"yi", "chou">> :> 4 @@ <<"yi", "yin">> :> 2 @@ <<"yi", "mao">> :> 2 @@
    <<"yi", "chen">> :> 6 @@ <<"yi", "si">> :> 6 @@ <<"yi", "wu">> :> 5 @@ <<"yi", "wei">> :> 5 @@
    <<"yi", "shen">> :> 3 @@ <<"yi", "you">> :> 3 @@ <<"yi", "xu">> :> 5 @@ <<"yi", "hai">> :> 5 @@
    <<"geng", "zi">> :> 4 @@ <<"geng", "chou">> :> 4 @@ <<"geng", "yin">> :> 2 @@ <<"geng", "mao">> :> 2 @@
    <<"geng", "chen">> :> 6 @@ <<"geng", "si">> :> 6 @@ <<"geng", "wu">> :> 5 @@ <<"geng", "wei">> :> 5 @@
    <<"geng", "shen">> :> 3 @@ <<"geng", "you">> :> 3 @@ <<"geng", "xu">> :> 5 @@ <<"geng", "hai">> :> 5 @@
    <<"bing", "zi">> :> 5 @@ <<"bing", "chou">> :> 5 @@ <<"bing", "yin">> :> 4 @@ <<"bing", "mao">> :> 4 @@
    <<"bing", "chen">> :> 2 @@ <<"bing", "si">> :> 2 @@ <<"bing", "wu">> :> 6 @@ <<"bing", "wei">> :> 6 @@
    <<"bing", "shen">> :> 5 @@ <<"bing", "you">> :> 5 @@ <<"bing", "xu">> :> 3 @@ <<"bing", "hai">> :> 3 @@
    <<"xin", "zi">> :> 5 @@ <<"xin", "chou">> :> 5 @@ <<"xin", "yin">> :> 4 @@ <<"xin", "mao">> :> 4 @@
    <<"xin", "chen">> :> 2 @@ <<"xin", "si">> :> 2 @@ <<"xin", "wu">> :> 6 @@ <<"xin", "wei">> :> 6 @@
    <<"xin", "shen">> :> 5 @@ <<"xin", "you">> :> 5 @@ <<"xin", "xu">> :> 3 @@ <<"xin", "hai">> :> 3 @@
    <<"ding", "zi">> :> 3 @@ <<"ding", "chou">> :> 3 @@ <<"ding", "yin">> :> 5 @@ <<"ding", "mao">> :> 5 @@
    <<"ding", "chen">> :> 4 @@ <<"ding", "si">> :> 4 @@ <<"ding", "wu">> :> 2 @@ <<"ding", "wei">> :> 2 @@
    <<"ding", "shen">> :> 6 @@ <<"ding", "you">> :> 6 @@ <<"ding", "xu">> :> 5 @@ <<"ding", "hai">> :> 5 @@
    <<"ren", "zi">> :> 3 @@ <<"ren", "chou">> :> 3 @@ <<"ren", "yin">> :> 5 @@ <<"ren", "mao">> :> 5 @@
    <<"ren", "chen">> :> 4 @@ <<"ren", "si">> :> 4 @@ <<"ren", "wu">> :> 2 @@ <<"ren", "wei">> :> 2 @@
    <<"ren", "shen">> :> 6 @@ <<"ren", "you">> :> 6 @@ <<"ren", "xu">> :> 5 @@ <<"ren", "hai">> :> 5 @@
    <<"wu", "zi">> :> 6 @@ <<"wu", "chou">> :> 6 @@ <<"wu", "yin">> :> 5 @@ <<"wu", "mao">> :> 5 @@
    <<"wu", "chen">> :> 3 @@ <<"wu", "si">> :> 3 @@ <<"wu", "wu">> :> 5 @@ <<"wu", "wei">> :> 5 @@
    <<"wu", "shen">> :> 2 @@ <<"wu", "you">> :> 2 @@ <<"wu", "xu">> :> 6 @@ <<"wu", "hai">> :> 6 @@
    <<"gui", "zi">> :> 6 @@ <<"gui", "chou">> :> 6 @@ <<"gui", "yin">> :> 5 @@ <<"gui", "mao">> :> 5 @@
    <<"gui", "chen">> :> 3 @@ <<"gui", "si">> :> 3 @@ <<"gui", "wu">> :> 5 @@ <<"gui", "wei">> :> 5 @@
    <<"gui", "shen">> :> 2 @@ <<"gui", "you">> :> 2 @@ <<"gui", "xu">> :> 6 @@ <<"gui", "hai">> :> 6

\* mutant: the last entry of the table is missing
WU_XING_JU_missing ==
    [k \in (DOMAIN WU_XING_JU_LITERAL) \ {<<"gui", "hai">>} |-> WU_XING_JU_LITERAL[k]]

\* the class attribute
WU_XING_JU == WU_XING_JU_LITERAL

BUREAUS == <<2, 3, 4, 5, 6>>

LUNAR_DAYS == 1..30

YIN == 3

\* mutant: walks forward on an even quotient and backward on an odd one
ZiWeiPosition_parity(bureau, day) ==
    LET quotient  == day \div bureau
        remainder == day % bureau
        add_on == bureau - remainder
        new_quotient == quotient + 1
        base_position == YIN + new_quotient - 1
        position_1based ==
            IF remainder = 0
            THEN YIN + quotient - 1
            ELSE IF new_quotient % 2 = 0
                 THEN base_position + add_on
                 ELSE base_position - add_on
    IN  (position_1based - 1) % 12

\* the value _build_zi_wei_table stores under (bureau, day)
ZiWeiPosition(bureau, day) ==
    LET quotient  == day \div bureau
        remainder == day % bureau
        add_on == bureau - remainder
        new_quotient == quotient + 1
        base_position == YIN + new_quotient - 1
        position_1based ==
            IF remainder = 0
            THEN YIN + quotient - 1
            ELSE IF new_quotient % 2 = 1
                 THEN base_position + add_on
                 ELSE base_position - add_on
    IN  (position_1based - 1) % 12

\* one pass of the loop body: self.ZI_WEI_TABLE[(bureau, day)] = position_0based
WriteEntry(table, bureau, day) ==
    [k \in (DOMAIN table) \cup {<<bureau, day>>} |->
        IF k = <<bureau, day>> THEN ZiWeiPosition(bureau, day) ELSE table[k]]

\* mutant: a key the dict already holds is advanced by the computed position
\* instead of being set to it
BuildZiWeiTable_advance(table) ==
    LET keys == {<<BUREAUS[i], day>> : i \in DOMAIN BUREAUS, day \in LUNAR_DAYS}
    IN  [k \in (DOMAIN table) \cup keys |->
            IF k \notin keys THEN table[k]
            ELSE IF k \in DOMAIN table
                 THEN (table[k] + ZiWeiPosition(k[1], k[2])) % 12
                 ELSE ZiWeiPosition(k[1], k[2])]

\* mutant: the day loop stops at 29
BuildZiWeiTable_short(table) ==
    LET keys == {<<BUREAUS[i], day>> : i \in DOMAIN BUREAUS, day \in 1..29}
    IN  [k \in (DOMAIN table) \cup keys |->
            IF k \in keys THEN ZiWeiPosition(k[1], k[2]) ELSE table[k]]

\* _build_zi_wei_table: assigns every (bureau, day) key of the class-level
\* dict and leaves any other key as it was
BuildZiWeiTable(table) ==
    LET keys == {<<BUREAUS[i], day>> : i \in DOMAIN BUREAUS, day \in LUNAR_DAYS}
    IN  [k \in (DOMAIN table) \cup keys |->
            IF k \in keys THEN ZiWeiPosition(k[1], k[2]) ELSE table[k]]

\* mutant: the lookup with the lunar day as given
get_zi_wei_location_unclamped(table, lunar_day, bureau) ==
    DictGet(table, <<bureau, lunar_day>>, 2)

get_zi_wei_location(table, lunar_day, bureau) ==
    LET day == Min2(Max2(lunar_day, 1), 30)
    IN  DictGet(table, <<bureau, day>>, 2)

\* mutant: the mirror through the zi-wu axis instead of the yin-shen axis
TIAN_FU_MAP_mirror ==
    0 :> 0 @@ 1 :> 11 @@ 2 :> 10 @@ 3 :> 9 @@ 4 :> 8 @@ 5 :> 7 @@
    6 :> 6 @@ 7 :> 5 @@ 8 :> 4 @@ 9 :> 3 @@ 10 :> 2 @@ 11 :> 1

TIAN_FU_MAP ==
    0 :> 4 @@ 1 :> 3 @@ 2 :> 2 @@ 3 :> 1 @@ 4 :> 0 @@ 5 :> 11 @@
    6 :> 10 @@ 7 :> 9 @@ 8 :> 8 @@ 9 :> 7 @@ 10 :> 6 @@ 11 :> 5

get_tian_fu_location(zi_wei_idx) == DictGet(TIAN_FU_MAP, zi_wei_idx, 4)

\* mutant: PO_JUN two branches behind the secondary anchor taken as +2 twice
place_all_stars_po_jun(zi_wei_idx, tian_fu_idx) ==
    "ZI_WEI"     :> zi_wei_idx @@
    "TIAN_JI"    :> (zi_wei_idx - 1) % 12 @@
    "TAI_YANG"   :> (zi_wei_idx - 3) % 12 @@
    "WU_QU"      :> (zi_wei_idx - 4) % 12 @@
    "TIAN_TONG"  :> (zi_wei_idx - 5) % 12 @@
    "LIAN_ZHEN"  :> (zi_wei_idx - 8) % 12 @@
    "TIAN_FU"    :> tian_fu_idx @@
    "TAI_YIN"    :> (tian_fu_idx + 1) % 12 @@
    "TAN_LANG"   :> (tian_fu_idx + 2) % 12 @@
    "JU_MEN"     :> (tian_fu_idx + 3) % 12 @@
    "TIAN_XIANG" :> (tian_fu_idx + 4) % 12 @@
    "TIAN_LIANG" :> (tian_fu_idx + 5) % 12 @@
    "QI_SHA"     :> (tian_fu_idx + 6) % 12 @@
    "PO_JUN"     :> (tian_fu_idx + 2) % 12

\* mutant: LIAN_ZHEN at the offset of WU_QU
place_all_stars_lian_zhen(zi_wei_idx, tian_fu_idx) ==
    "ZI_WEI"     :> zi_wei_idx @@
    "TIAN_JI"    :> (zi_wei_idx - 1) % 12 @@
    "TAI_YANG"   :> (zi_wei_idx - 3) % 12 @@
    "WU_QU"      :> (zi_wei_idx - 4) % 12 @@
    "TIAN_TONG"  :> (zi_wei_idx - 5) % 12 @@
    "LIAN_ZHEN"  :> (zi_wei_idx - 4) % 12 @@
    "TIAN_FU"    :> tian_fu_idx @@
    "TAI_YIN"    :> (tian_fu_idx + 1) % 12 @@
    "TAN_LANG"   :> (tian_fu_idx + 2) % 12 @@
    "JU_MEN"     :> (tian_fu_idx + 3) % 12 @@
    "TIAN_XIANG" :> (tian_fu_idx + 4) % 12 @@
    "TIAN_LIANG" :> (tian_fu_idx + 5) % 12 @@
    "QI_SHA"     :> (tian_fu_idx + 6) % 12 @@
    "PO_JUN"     :> (tian_fu_idx + 10) % 12

place_all_stars(zi_wei_idx, tian_fu_idx) ==
    "ZI_WEI"     :> zi_wei_idx @@
    "TIAN_JI"    :> (zi_wei_idx - 1) % 12 @@
    "TAI_YANG"   :> (zi_wei_idx - 3) % 12 @@
    "WU_QU"      :> (zi_wei_idx - 4) % 12 @@
    "TIAN_TONG"  :> (zi_wei_idx - 5) % 12 @@
    "LIAN_ZHEN"  :> (zi_wei_idx - 8) % 12 @@
    "TIAN_FU"    :> tian_fu_idx @@
    "TAI_YIN"    :> (tian_fu_idx + 1) % 12 @@
    "TAN_LANG"   :> (tian_fu_idx + 2) % 12 @@
    "JU_MEN"     :> (tian_fu_idx + 3) % 12 @@
    "TIAN_XIANG" :> (tian_fu_idx + 4) % 12 @@
    "TIAN_LIANG" :> (tian_fu_idx + 5) % 12 @@
    "QI_SHA"     :> (tian_fu_idx + 6) % 12 @@
    "PO_JUN"     :> (tian_fu_idx + 10) % 12

\* mutant: the hour is subtracted without the final wrap-around
get_life_palace_branch_nowrap(lunar_month, hour_idx) ==
    LET yin_idx == 2
        month_pos == (yin_idx + lunar_month - 1) % 12
    IN  month_pos - hour_idx

get_life_palace_branch(lunar_month, hour_idx) ==
    LET yin_idx == 2
        month_pos == (yin_idx + lunar_month - 1) % 12
    IN  (month_pos - hour_idx) % 12

\* the dict literal: stem -> element
STEM_ELEMENTS ==
    "jia" :> "WOOD" @@ "yi" :> "WOOD" @@
    "bing" :> "FIRE" @@ "ding" :> "FIRE" @@
    "wu" :> "EARTH" @@ "ji" :> "EARTH" @@
    "geng" :> "METAL" @@ "xin" :> "METAL" @@
    "ren" :> "WATER" @@ "gui" :> "WATER"

\* the dict literal: branch -> element
BRANCH_ELEMENTS ==
    "zi" :> "WATER" @@ "chou" :> "EARTH" @@ "yin" :> "WOOD" @@ "mao" :> "WOOD" @@
    "chen" :> "EARTH" @@ "si" :> "FIRE" @@ "wu" :> "FIRE" @@ "wei" :> "EARTH" @@
    "shen" :> "METAL" @@ "you" :> "METAL" @@ "xu" :> "EARTH" @@ "hai" :> "WATER"

\* mutant: only the stem of a pillar is counted
RECURSIVE _calculate_element_distribution_stems(_)
_calculate_element_distribution_stems(pillars) ==
    IF pillars = <<>>
    THEN [e \in Elements |-> 0]
    ELSE LET n == Len(pillars)
             pillar == pillars[n]
             d0 == _calculate_element_distribution_stems(SubSeq(pillars, 1, n - 1))
         IN  IF Len(pillar) >= 2 /\ pillar[1] \in DOMAIN STEM_ELEMENTS
             THEN [d0 EXCEPT ![STEM_ELEMENTS[pillar[1]]] = @ + 1]
             ELSE d0

\* _calculate_element_distribution(*pillars): the loop over the pillars, the
\* last pillar counted last; a pillar is the sequence of its characters
RECURSIVE _calculate_element_distribution(_)
_calculate_element_distribution(pillars) ==
    IF pillars = <<>>
    THEN [e \in Elements |-> 0]
    ELSE LET n == Len(pillars)
             pillar == pillars[n]
             d0 == _calculate_element_distribution(SubSeq(pillars, 1, n - 1))
             d1 == IF Len(pillar) >= 2 /\ pillar[1] \in DOMAIN STEM_ELEMENTS
                   THEN [d0 EXCEPT ![STEM_ELEMENTS[pillar[1]]] = @ + 1]
                   ELSE d0
             d2 == IF Len(pillar) >= 2 /\ pillar[2] \in DOMAIN BRANCH_ELEMENTS
                   THEN [d1 EXCEPT ![BRANCH_ELEMENTS[pillar[2]]] = @ + 1]
                   ELSE d1
         IN  d2

\* step 14 of calculate_fate: the element of the day stem
inherent_element(day_pillar) ==
    LET day_stem == IF day_pillar # <<>> THEN day_pillar[1] ELSE "jia"
    IN  DictGet(STEM_ELEMENTS, day_stem, "WOOD")

\* mutant: the double hour taken to begin at the even clock hour
_get_hour_index_even(hour) ==
    IF hour = 23 THEN 0 ELSE (hour \div 2) % 12

_get_hour_index(hour) ==
    IF hour = 23 THEN 0 ELSE ((hour + 1) \div 2) % 12

\* the dict literal: year stem -> role -> star name; the roles are hua lu,
\* hua quan, hua ke, hua ji, and wen chang, wen qu, zuo fu, you bi are star
\* names outside the MajorStar enum
SI_HUA_LITERAL ==
    "jia" :> ("hua_lu" :> "LIAN_ZHEN" @@ "hua_quan" :> "PO_JUN" @@ "hua_ke" :> "WU_QU" @@ "hua_ji" :> "TAI_YANG") @@
    "yi" :> ("hua_lu" :> "TIAN_JI" @@ "hua_quan" :> "TIAN_LIANG" @@ "hua_ke" :> "ZI_WEI" @@ "hua_ji" :> "TAI_YIN") @@
    "bing" :> ("hua_lu" :> "TIAN_TONG" @@ "hua_quan" :> "TIAN_JI" @@ "hua_ke" :> "WEN_CHANG" @@ "hua_ji" :> "LIAN_ZHEN") @@
    "ding" :> ("hua_lu" :> "TAI_YIN" @@ "hua_quan" :> "TIAN_TONG" @@ "hua_ke" :> "TIAN_JI" @@ "hua_ji" :> "JU_MEN") @@
    "wu" :> ("hua_lu" :> "TAN_LANG" @@ "hua_quan" :> "TAI_YIN" @@ "hua_ke" :> "YOU_BI" @@ "hua_ji" :> "TIAN_JI") @@
    "ji" :> ("hua_lu" :> "WU_QU" @@ "hua_quan" :> "TAN_LANG" @@ "hua_ke" :> "TIAN_LIANG" @@ "hua_ji" :> "WEN_QU") @@
    "geng" :> ("hua_lu" :> "TAI_YANG" @@ "hua_quan" :> "WU_QU" @@ "hua_ke" :> "TAI_YIN" @@ "hua_ji" :> "TIAN_TONG") @@
    "xin" :> ("hua_lu" :> "JU_MEN" @@ "hua_quan" :> "TAI_YANG" @@ "hua_ke" :> "WEN_QU" @@ "hua_ji" :> "WEN_CHANG") @@
    "ren" :> ("hua_lu" :> "TIAN_LIANG" @@ "hua_quan" :> "ZI_WEI" @@ "hua_ke" :> "ZUO_FU" @@ "hua_ji" :> "WU_QU") @@
    "gui" :> ("hua_lu" :> "PO_JUN" @@ "hua_quan" :> "JU_MEN" @@ "hua_ke" :> "TAI_YIN" @@ "hua_ji" :> "TAN_LANG")

\* mutant: the hua ke role of the stem ren is given to wu qu, which already
\* holds its hua ji role
SI_HUA_repeat ==
    [SI_HUA_LITERAL EXCEPT !["ren"]["hua_ke"] = "WU_QU"]

SI_HUA == SI_HUA_LITERAL

\* the sort order of the stars found in the life palace
star_priority == <<"ZI_WEI", "TIAN_FU", "WU_QU", "TAN_LANG", "TIAN_JI", "TAI_YANG",
                   "TAI_YIN", "TIAN_TONG", "LIAN_ZHEN", "JU_MEN", "TIAN_XIANG",
                   "TIAN_LIANG", "QI_SHA", "PO_JUN">>

\* steps 4 to 12 of calculate_fate on a calendar result; the three *_miss
\* fields record whether a dict.get fell back to its default
calculate_fate_body(table, year_stem, lunar_month, lunar_day, hour) ==
    LET hour_idx == _get_hour_index(hour)
        life_palace_idx == get_life_palace_branch(lunar_month, hour_idx)
        life_palace_branch == BranchAt(life_palace_idx)
        ju_key == <<year_stem, life_palace_branch>>
        bureau == DictGet(WU_XING_JU, ju_key, 3)
        day == Min2(Max2(lunar_day, 1), 30)
        zi_wei_idx == get_zi_wei_location(table, lunar_day, bureau)
        tian_fu_idx == get_tian_fu_location(zi_wei_idx)
        star_positions == place_all_stars(zi_wei_idx, tian_fu_idx)
        stars_in_life_palace ==
            SelectSeq(star_priority, LAMBDA s : star_positions[s] = life_palace_idx)
        si_hua == DictGet(SI_HUA, year_stem, EmptyDict)
        si_hua_in_life ==
            [hua_type \in {h \in DOMAIN si_hua :
                              \E i \in DOMAIN stars_in_life_palace :
                                 stars_in_life_palace[i] = si_hua[h]}
                |-> si_hua[hua_type]]
    IN  [op |-> "calculate_fate",
         year_stem |-> year_stem, lunar_month |-> lunar_month,
         lunar_day |-> lunar_day, hour |-> hour,
         lunar_hour |-> hour_idx,
         life_palace_idx |-> life_palace_idx,
         life_palace_branch |-> life_palace_branch,
         bureau |-> bureau,
         zi_wei_idx |-> zi_wei_idx,
         tian_fu_idx |-> tian_fu_idx,
         star_positions |-> star_positions,
         all_major_stars |-> stars_in_life_palace,
         si_hua |-> si_hua,
         si_hua_in_life |-> si_hua_in_life,
         major_star |-> IF stars_in_life_palace # <<>>
                        THEN stars_in_life_palace[1] ELSE "ZI_WEI",
         ju_miss |-> ju_key \notin DOMAIN WU_XING_JU,
         zi_wei_miss |-> <<bureau, day>> \notin DOMAIN table,
         tian_fu_miss |-> zi_wei_idx \notin DOMAIN TIAN_FU_MAP]

\* dt > other for two datetimes of the same calendar day of their year,
\* which differ in the year and the clock hour only
After(dt, other) ==
    \/ dt.year > other.year
    \/ (dt.year = other.year /\ dt.hour > other.hour)

\* mutant: a birth at the current time is rejected
_validate_birth_datetime_now(dt, now) ==
    IF dt.year < 1900
    THEN [raised |-> TRUE, message |-> "Birth year must be 1900 or later"]
    ELSE IF After(dt, now) \/ dt = now
         THEN [raised |-> TRUE, message |-> "Birth date cannot be in the future"]
         ELSE [raised |-> FALSE, message |-> ""]

\* _validate_birth_datetime; now is the value of datetime.now()
_validate_birth_datetime(dt, now) ==
    IF dt.year < 1900
    THEN [raised |-> TRUE, message |-> "Birth year must be 1900 or later"]
    ELSE IF After(dt, now)
         THEN [raised |-> TRUE, message |-> "Birth date cannot be in the future"]
         ELSE [raised |-> FALSE, message |-> ""]

\* mutant: the wrapping error carries no details
\* str(birth_datetime): the year and the two-digit hour of the ISO text
\* (the fields of a datetime the model keeps)
str(dt) ==
    ToString(dt.year) \o " " \o (IF dt.hour < 10 THEN "0" ELSE "") \o ToString(dt.hour)

except_handler_bare(e, birth_datetime) ==
    IF e \in {"InvalidBirthDataError", "CalendarConversionError"}
    THEN [error |-> e, wrapped |-> FALSE, details |-> EmptyDict]
    ELSE [error |-> "CalendarConversionError", wrapped |-> TRUE, details |-> EmptyDict]

\* the except clause of calculate_fate on an exception of class e
except_handler(e, birth_datetime) ==
    IF e \in {"InvalidBirthDataError", "CalendarConversionError"}
    THEN [error |-> e, wrapped |-> FALSE, details |-> EmptyDict]
    ELSE [error |-> "CalendarConversionError", wrapped |-> TRUE,
          details |-> [k \in {"birth_datetime"} |-> str(birth_datetime)]]

\* calculate_fate; bridge is what the calendar bridge does on the birth
\* datetime: it raises an exception or returns a year stem, a lunar month
\* (after abs()) and a lunar day.  bridge_calls counts the conversions made.
calculate_fate(table, birth_datetime, now, bridge) ==
    LET invalid == _validate_birth_datetime(birth_datetime, now)
        handled == except_handler(bridge.raises, birth_datetime)
        request == [op |-> "calculate_fate", birth_datetime |-> birth_datetime,
                    now |-> now]
    IN  IF invalid.raised
        THEN request @@ [error |-> "InvalidBirthDataError", wrapped |-> FALSE,
                         message |-> invalid.message, details |-> EmptyDict,
                         bridge_calls |-> 0, profile |-> FALSE]
        ELSE IF bridge.raises # "none"
        THEN request @@ [error |-> handled.error, wrapped |-> handled.wrapped,
                         message |-> "Failed to calculate fate",
                         details |-> handled.details,
                         bridge_calls |-> 1, profile |-> FALSE]
        ELSE calculate_fate_body(table, bridge.year_stem, bridge.lunar_month,
                                 bridge.lunar_day, birth_datetime.hour)
             @@ request
             @@ [error |-> "none", wrapped |-> FALSE, message |-> "",
                 details |-> EmptyDict, bridge_calls |-> 1, profile |-> TRUE]

(* ------------------------------------------------------------- Alchemist *)

DIRECTION_ELEMENTS ==
    "north" :> "WATER" @@ "south" :> "FIRE" @@ "east" :> "WOOD" @@ "west" :> "METAL" @@
    "northeast" :> "EARTH" @@ "southeast" :> "WOOD" @@ "southwest" :> "EARTH" @@
    "northwest" :> "METAL"

TEMP_FIRE_THRESHOLD == 30

TEMP_WATER_THRESHOLD == 10

HUMIDITY_HIGH_THRESHOLD == 70

HUMIDITY_LOW_THRESHOLD == 30

\* the dict literal, (user element, environment element) -> entry; of an
\* entry only the remedy list is kept, the two description strings are not
IMBALANCE_MATRIX_LITERAL ==
    <<"METAL", "FIRE">> :> [remedy |-> <<"WATER", "EARTH">>] @@
    <<"METAL", "WATER">> :> [remedy |-> <<"FIRE", "EARTH">>] @@
    <<"METAL", "WOOD">> :> [remedy |-> <<"WATER">>] @@
    <<"METAL", "EARTH">> :> [remedy |-> <<"FIRE", "WATER">>] @@
    <<"WOOD", "METAL">> :> [remedy |-> <<"WATER", "FIRE">>] @@
    <<"WOOD", "FIRE">> :> [remedy |-> <<"WATER", "EARTH">>] @@
    <<"WOOD", "WATER">> :> [remedy |-> <<"FIRE", "EARTH">>] @@
    <<"WOOD", "EARTH">> :> [remedy |-> <<"METAL", "FIRE">>] @@
    <<"WATER", "FIRE">> :> [remedy |-> <<"METAL", "WOOD">>] @@
    <<"WATER", "EARTH">> :> [remedy |-> <<"WOOD", "METAL">>] @@
    <<"WATER", "METAL">> :> [remedy |-> <<"FIRE", "WOOD">>] @@
    <<"WATER", "WOOD">> :> [remedy |-> <<"METAL", "EARTH">>] @@
    <<"FIRE", "WATER">> :> [remedy |-> <<"WOOD", "EARTH">>] @@
    <<"FIRE", "METAL">> :> [remedy |-> <<"EARTH", "WATER">>] @@
    <<"FIRE", "EARTH">> :> [remedy |-> <<"WOOD", "METAL">>] @@
    <<"FIRE", "WOOD">> :> [remedy |-> <<"WATER", "EARTH">>] @@
    <<"EARTH", "WOOD">> :> [remedy |-> <<"METAL", "FIRE">>] @@
    <<"EARTH", "WATER">> :> [remedy |-> <<"FIRE", "METAL">>] @@
    <<"EARTH", "FIRE">> :> [remedy |-> <<"METAL", "WOOD">>] @@
    <<"EARTH", "METAL">> :> [remedy |-> <<"FIRE", "WATER">>]

\* mutant: the remedy of (METAL, WOOD) names the environment element
InitialMatrix_self ==
    [IMBALANCE_MATRIX_LITERAL EXCEPT
        ![<<"METAL", "WOOD">>] = [remedy |-> <<"WATER", "WOOD">>]]

\* mutant: (FIRE, METAL) carries the remedy list of (METAL, FIRE)
InitialMatrix_symmetric ==
    [IMBALANCE_MATRIX_LITERAL EXCEPT
        ![<<"FIRE", "METAL">>] = [remedy |-> <<"WATER", "EARTH">>]]

\* mutant: the entry for (EARTH, METAL) is missing
InitialMatrix_missing ==
    [k \in (DOMAIN IMBALANCE_MATRIX_LITERAL) \ {<<"EARTH", "METAL">>} |->
        IMBALANCE_MATRIX_LITERAL[k]]

\* the class attribute as the class body leaves it
InitialMatrix == IMBALANCE_MATRIX_LITERAL

\* mutant: a direction the table does not know contributes nothing
element_scores_unknown(machine_element, real_env) ==
    LET s0 == [e \in Elements |-> 0]
        Add(s, e, v) == [s EXCEPT ![e] = @ + v]
        s1 == Add(s0, machine_element, 30)
        temp == real_env.weather.temperature_celsius
        humidity == real_env.weather.humidity_percent
        s2 == IF real_env.weather.present
              THEN LET t == IF temp >= TEMP_FIRE_THRESHOLD THEN Add(s1, "FIRE", 35)
                            ELSE IF temp <= TEMP_WATER_THRESHOLD THEN Add(s1, "WATER", 35)
                            ELSE IF temp > 20 THEN Add(Add(s1, "FIRE", 15), "EARTH", 20)
                            ELSE Add(Add(s1, "WATER", 15), "METAL", 20)
                   IN  IF humidity >= HUMIDITY_HIGH_THRESHOLD THEN Add(t, "WATER", 10)
                       ELSE IF humidity <= HUMIDITY_LOW_THRESHOLD
                            THEN Add(Add(t, "FIRE", 5), "METAL", 5)
                            ELSE t
              ELSE Add(s1, "EARTH", 35)
        direction == real_env.compass.cardinal_direction
        s3 == IF real_env.compass.present
              THEN IF direction \in DOMAIN DIRECTION_ELEMENTS
                   THEN Add(s2, DIRECTION_ELEMENTS[direction], 35)
                   ELSE s2
              ELSE Add(s2, "EARTH", 35)
    IN  s3

\* element_scores after the three contributions, in hundredths (0.30 is 30);
\* every sum the code can form compares in floating point as it does here
\* mutant: a missing reading spreads its weight evenly over the five elements
element_scores_evenly(machine_element, real_env) ==
    LET s0 == [e \in Elements |-> 0]
        Add(s, e, v) == [s EXCEPT ![e] = @ + v]
        s1 == Add(s0, machine_element, 30)
        temp == real_env.weather.temperature_celsius
        humidity == real_env.weather.humidity_percent
        s2 == IF real_env.weather.present
              THEN LET t == IF temp >= TEMP_FIRE_THRESHOLD THEN Add(s1, "FIRE", 35)
                            ELSE IF temp <= TEMP_WATER_THRESHOLD THEN Add(s1, "WATER", 35)
                            ELSE IF temp > 20 THEN Add(Add(s1, "FIRE", 15), "EARTH", 20)
                            ELSE Add(Add(s1, "WATER", 15), "METAL", 20)
                   IN  IF humidity >= HUMIDITY_HIGH_THRESHOLD THEN Add(t, "WATER", 10)
                       ELSE IF humidity <= HUMIDITY_LOW_THRESHOLD
                            THEN Add(Add(t, "FIRE", 5), "METAL", 5)
                            ELSE t
              ELSE [el \in Elements |-> s1[el] + 7]
        direction == real_env.compass.cardinal_direction
        s3 == IF real_env.compass.present
              THEN IF direction \in DOMAIN DIRECTION_ELEMENTS
                   THEN Add(s2, DIRECTION_ELEMENTS[direction], 35)
                   ELSE Add(s2, "EARTH", 35)
              ELSE [el \in Elements |-> s2[el] + 7]
    IN  s3

element_scores(machine_element, real_env) ==
    LET s0 == [e \in Elements |-> 0]
        Add(s, e, v) == [s EXCEPT ![e] = @ + v]
        s1 == Add(s0, machine_element, 30)
        temp == real_env.weather.temperature_celsius
        humidity == real_env.weather.humidity_percent
        s2 == IF real_env.weather.present
              THEN LET t == IF temp >= TEMP_FIRE_THRESHOLD THEN Add(s1, "FIRE", 35)
                            ELSE IF temp <= TEMP_WATER_THRESHOLD THEN Add(s1, "WATER", 35)
                            ELSE IF temp > 20 THEN Add(Add(s1, "FIRE", 15), "EARTH", 20)
                            ELSE Add(Add(s1, "WATER", 15), "METAL", 20)
                   IN  IF humidity >= HUMIDITY_HIGH_THRESHOLD THEN Add(t, "WATER", 10)
                       ELSE IF humidity <= HUMIDITY_LOW_THRESHOLD
                            THEN Add(Add(t, "FIRE", 5), "METAL", 5)
                            ELSE t
              ELSE Add(s1, "EARTH", 35)
        direction == real_env.compass.cardinal_direction
        s3 == IF real_env.compass.present
              THEN IF direction \in DOMAIN DIRECTION_ELEMENTS
                   THEN Add(s2, DIRECTION_ELEMENTS[direction], 35)
                   ELSE Add(s2, "EARTH", 35)
              ELSE Add(s2, "EARTH", 35)
    IN  s3

\* mutant: a tie goes to the last key of greatest score
MaxKey_last(d) ==
    LET i == CHOOSE i \in DOMAIN Element :
                 \A j \in DOMAIN Element :
                    \/ d[Element[i]] > d[Element[j]]
                    \/ (d[Element[i]] = d[Element[j]] /\ i >= j)
    IN  Element[i]

\* max(d, key=d.get): the first key, in the order of the enum, of greatest score
MaxKey(d) ==
    LET i == CHOOSE i \in DOMAIN Element :
                 \A j \in DOMAIN Element :
                    \/ d[Element[i]] > d[Element[j]]
                    \/ (d[Element[i]] = d[Element[j]] /\ i <= j)
    IN  Element[i]

\* FateProfile.strongest_element
strongest_element(fate) ==
    IF DOMAIN fate.element_distribution = {}
    THEN fate.inherent_element
    ELSE MaxKey(fate.element_distribution)

_calculate_combined_environment_element(machine_element, real_env) ==
    MaxKey(element_scores(machine_element, real_env))

\* the modifiers the remedy adjustment reads; "NONE" is Python's None
_analyze_real_environment(real_env) ==
    LET temp == real_env.weather.temperature_celsius
        humidity == real_env.weather.humidity_percent
        direction == real_env.compass.cardinal_direction
    IN  [temperature_influence |->
            IF ~real_env.weather.present THEN "moderate"
            ELSE IF temp >= TEMP_FIRE_THRESHOLD THEN "hot"
            ELSE IF temp <= TEMP_WATER_THRESHOLD THEN "cold"
            ELSE "moderate",
         humidity_influence |->
            IF ~real_env.weather.present THEN "moderate"
            ELSE IF humidity >= HUMIDITY_HIGH_THRESHOLD THEN "wet"
            ELSE IF humidity <= HUMIDITY_LOW_THRESHOLD THEN "dry"
            ELSE "moderate",
         direction_element |->
            IF real_env.compass.present
            THEN DictGet(DIRECTION_ELEMENTS, direction, "NONE")
            ELSE "NONE"]

_get_generating_element(element) ==
    CASE element = "METAL" -> "EARTH"
      [] element = "WATER" -> "METAL"
      [] element = "WOOD"  -> "WATER"
      [] element = "FIRE"  -> "WOOD"
      [] element = "EARTH" -> "FIRE"

\* e in remedy
Contains(remedy, e) == \E i \in DOMAIN remedy : remedy[i] = e

\* remedy[:3]
FirstThree(remedy) == SubSeq(remedy, 1, Min2(Len(remedy), 3))

\* the local list `remedy` of _adjust_remedy_for_environment when the return
\* statement is reached, after the appends
appended_remedy(base_remedy, env_modifiers, user_element) ==
    LET remedy0 == base_remedy
        remedy1 ==
            IF env_modifiers.temperature_influence = "hot"
            THEN IF ~Contains(remedy0, "WATER") /\ Contains(remedy0, "FIRE")
                 THEN Append(remedy0, "WATER")
                 ELSE IF ~Contains(remedy0, "WATER") /\ user_element # "FIRE"
                      THEN Append(remedy0, "WATER")
                      ELSE remedy0
            ELSE IF env_modifiers.temperature_influence = "cold"
            THEN IF ~Contains(remedy0, "FIRE") /\ Contains(remedy0, "WATER")
                 THEN Append(remedy0, "FIRE")
                 ELSE IF ~Contains(remedy0, "FIRE") /\ user_element # "WATER"
                      THEN Append(remedy0, "FIRE")
                      ELSE remedy0
            ELSE remedy0
        remedy2 ==
            IF /\ env_modifiers.humidity_influence = "wet"
               /\ ~Contains(remedy1, "EARTH")
               /\ Len(remedy1) < 3
            THEN Append(remedy1, "EARTH")
            ELSE remedy1
        direction_element == env_modifiers.direction_element
        protector == _get_generating_element(user_element)
        remedy3 ==
            IF /\ direction_element # "NONE"
               /\ controls(direction_element) = user_element
               /\ ~Contains(remedy2, protector)
               /\ Len(remedy2) < 3
            THEN Append(remedy2, protector)
            ELSE remedy2
    IN  remedy3

\* mutant: the cold branch tests the user element of the hot branch
_adjust_remedy_for_environment_cold(base_remedy, env_modifiers, user_element) ==
    LET remedy0 == base_remedy
        remedy1 ==
            IF env_modifiers.temperature_influence = "hot"
            THEN IF ~Contains(remedy0, "WATER") /\ Contains(remedy0, "FIRE")
                 THEN Append(remedy0, "WATER")
                 ELSE IF ~Contains(remedy0, "WATER") /\ user_element # "FIRE"
                      THEN Append(remedy0, "WATER")
                      ELSE remedy0
            ELSE IF env_modifiers.temperature_influence = "cold"
            THEN IF ~Contains(remedy0, "FIRE") /\ Contains(remedy0, "WATER")
                 THEN Append(remedy0, "FIRE")
                 ELSE IF ~Contains(remedy0, "FIRE") /\ user_element # "FIRE"
                      THEN Append(remedy0, "FIRE")
                      ELSE remedy0
            ELSE remedy0
        remedy2 ==
            IF /\ env_modifiers.humidity_influence = "wet"
               /\ ~Contains(remedy1, "EARTH")
               /\ Len(remedy1) < 3
            THEN Append(remedy1, "EARTH")
            ELSE remedy1
        direction_element == env_modifiers.direction_element
        protector == _get_generating_element(user_element)
        remedy3 ==
            IF /\ direction_element # "NONE"
               /\ controls(direction_element) = user_element
               /\ ~Contains(remedy2, protector)
               /\ Len(remedy2) < 3
            THEN Append(remedy2, protector)
            ELSE remedy2
    IN  IF remedy3 # <<>>
        THEN FirstThree(remedy3)
        ELSE <<_get_generating_element(user_element)>>

\* mutant: an empty list is returned as it is
_adjust_remedy_for_environment_empty(base_remedy, env_modifiers, user_element) ==
    LET remedy0 == base_remedy
        remedy1 ==
            IF env_modifiers.temperature_influence = "hot"
            THEN IF ~Contains(remedy0, "WATER") /\ Contains(remedy0, "FIRE")
                 THEN Append(remedy0, "WATER")
                 ELSE IF ~Contains(remedy0, "WATER") /\ user_element # "FIRE"
                      THEN Append(remedy0, "WATER")
                      ELSE remedy0
            ELSE IF env_modifiers.temperature_influence = "cold"
            THEN IF ~Contains(remedy0, "FIRE") /\ Contains(remedy0, "WATER")
                 THEN Append(remedy0, "FIRE")
                 ELSE IF ~Contains(remedy0, "FIRE") /\ user_element # "WATER"
                      THEN Append(remedy0, "FIRE")
                      ELSE remedy0
            ELSE remedy0
        remedy2 ==
            IF /\ env_modifiers.humidity_influence = "wet"
               /\ ~Contains(remedy1, "EARTH")
               /\ Len(remedy1) < 3
            THEN Append(remedy1, "EARTH")
            ELSE remedy1
        direction_element == env_modifiers.direction_element
        protector == _get_generating_element(user_element)
        remedy3 ==
            IF /\ direction_element # "NONE"
               /\ controls(direction_element) = user_element
               /\ ~Contains(remedy2, protector)
               /\ Len(remedy2) < 3
            THEN Append(remedy2, protector)
            ELSE remedy2
    IN  FirstThree(remedy3)

\* mutant: wet appends Earth without looking for it in the list
_adjust_remedy_for_environment_wet(base_remedy, env_modifiers, user_element) ==
    LET remedy0 == base_remedy
        remedy1 ==
            IF env_modifiers.temperature_influence = "hot"
            THEN IF ~Contains(remedy0, "WATER") /\ Contains(remedy0, "FIRE")
                 THEN Append(remedy0, "WATER")
                 ELSE IF ~Contains(remedy0, "WATER") /\ user_element # "FIRE"
                      THEN Append(remedy0, "WATER")
                      ELSE remedy0
            ELSE IF env_modifiers.temperature_influence = "cold"
            THEN IF ~Contains(remedy0, "FIRE") /\ Contains(remedy0, "WATER")
                 THEN Append(remedy0, "FIRE")
                 ELSE IF ~Contains(remedy0, "FIRE") /\ user_element # "WATER"
                      THEN Append(remedy0, "FIRE")
                      ELSE remedy0
            ELSE remedy0
        remedy2 ==
            IF /\ env_modifiers.humidity_influence = "wet"
               /\ Len(remedy1) < 3
            THEN Append(remedy1, "EARTH")
            ELSE remedy1
        direction_element == env_modifiers.direction_element
        protector == _get_generating_element(user_element)
        remedy3 ==
            IF /\ direction_element # "NONE"
               /\ controls(direction_element) = user_element
               /\ ~Contains(remedy2, protector)
               /\ Len(remedy2) < 3
            THEN Append(remedy2, protector)
            ELSE remedy2
    IN  IF remedy3 # <<>>
        THEN FirstThree(remedy3)
        ELSE <<_get_generating_element(user_element)>>

\* mutant: in a hot environment Water is put in front of the remedy
_adjust_remedy_for_environment_front(base_remedy, env_modifiers, user_element) ==
    LET remedy0 == base_remedy
        remedy1 ==
            IF env_modifiers.temperature_influence = "hot"
            THEN IF ~Contains(remedy0, "WATER") /\ Contains(remedy0, "FIRE")
                 THEN <<"WATER">> \o remedy0
                 ELSE IF ~Contains(remedy0, "WATER") /\ user_element # "FIRE"
                      THEN <<"WATER">> \o remedy0
                      ELSE remedy0
            ELSE IF env_modifiers.temperature_influence = "cold"
            THEN IF ~Contains(remedy0, "FIRE") /\ Contains(remedy0, "WATER")
                 THEN Append(remedy0, "FIRE")
                 ELSE IF ~Contains(remedy0, "FIRE") /\ user_element # "WATER"
                      THEN Append(remedy0, "FIRE")
                      ELSE remedy0
            ELSE remedy0
        remedy2 ==
            IF /\ env_modifiers.humidity_influence = "wet"
               /\ ~Contains(remedy1, "EARTH")
               /\ Len(remedy1) < 3
            THEN Append(remedy1, "EARTH")
            ELSE remedy1
        direction_element == env_modifiers.direction_element
        protector == _get_generating_element(user_element)
        remedy3 ==
            IF /\ direction_element # "NONE"
               /\ controls(direction_element) = user_element
               /\ ~Contains(remedy2, protector)
               /\ Len(remedy2) < 3
            THEN Append(remedy2, protector)
            ELSE remedy2
    IN  IF remedy3 # <<>>
        THEN FirstThree(remedy3)
        ELSE <<_get_generating_element(user_element)>>

_adjust_remedy_for_environment(base_remedy, env_modifiers, user_element) ==
    LET remedy == appended_remedy(base_remedy, env_modifiers, user_element)
    IN  IF remedy # <<>>
        THEN FirstThree(remedy)
        ELSE <<_get_generating_element(user_element)>>

\* mutant: the second element is taken from _get_generating_element
_find_weakness_remedy_generating(fate) ==
    [remedy |-> <<weakest_element(fate), _get_generating_element(fate.inherent_element)>>]

_find_weakness_remedy(fate) ==
    [remedy |-> <<weakest_element(fate), generates(fate.inherent_element)>>]

\* diagnose up to the remedy list handed to Diagnosis; fallback records that
\* the table had no entry for the key, valid that the list passes the length
\* constraint of Diagnosis.remedy_elements
\* Diagnosis.primary_remedy_element; Python lists are 0-based
primary_remedy_element(remedy_elements) == remedy_elements[1]

diagnose(matrix, fate, machine_element, real_env) ==
    LET user_element == fate.inherent_element
        env_element == _calculate_combined_environment_element(machine_element, real_env)
        env_modifiers == _analyze_real_environment(real_env)
        key == <<user_element, env_element>>
        imbalance_data == IF key \in DOMAIN matrix
                          THEN matrix[key]
                          ELSE _find_weakness_remedy(fate)
        adjusted == _adjust_remedy_for_environment(
                        imbalance_data.remedy, env_modifiers, user_element)
        remedy_elements == IF adjusted = <<>>
                           THEN <<_get_generating_element(user_element)>>
                           ELSE adjusted
    IN  [op |-> "diagnose",
         fate |-> fate, machine_element |-> machine_element, real_env |-> real_env,
         user_element |-> user_element,
         env_element |-> env_element,
         env_modifiers |-> env_modifiers,
         fallback |-> key \notin DOMAIN matrix,
         base_remedy |-> imbalance_data.remedy,
         remedy_elements |-> remedy_elements,
         primary_remedy_element |-> primary_remedy_element(remedy_elements),
         valid |-> Len(remedy_elements) >= 1 /\ Len(remedy_elements) <= 3]

\* mutant: no new list is made, the same list object is handed on
ListAlias(list, id) == list

\* list.copy() and list(x): a new list object, named id, with the items of x
ListCopy(list, id) == [id |-> id, items |-> list.items]

\* the class-level table after a diagnose call.  The list of the entry is
\* copied when it is handed to _adjust_remedy_for_environment, which copies
\* its argument again and appends to that list; the entry changes only if
\* the list appended to is the entry's own list object.  On the fallback
\* path _find_weakness_remedy makes a new list.
diagnose_IMBALANCE_MATRIX(matrix, fate, machine_element, real_env) ==
    LET user_element == fate.inherent_element
        env_element == _calculate_combined_environment_element(machine_element, real_env)
        env_modifiers == _analyze_real_environment(real_env)
        key == <<user_element, env_element>>
    IN  IF key \notin DOMAIN matrix
        THEN matrix
        ELSE LET entry == [id |-> "entry", items |-> matrix[key].remedy]
                 base_remedy == IF entry.items # <<>>
                                THEN ListCopy(entry, "base_remedy")
                                ELSE [id |-> "base_remedy", items |-> <<>>]
                 remedy == IF base_remedy.items # <<>>
                           THEN ListCopy(base_remedy, "remedy")
                           ELSE [id |-> "remedy", items |-> <<>>]
                 appended == appended_remedy(remedy.items, env_modifiers, user_element)
             IN  IF remedy.id = "entry"
                 THEN [matrix EXCEPT ![key] = [remedy |-> appended]]
                 ELSE matrix

(* ---------------------------------------------------------------- inputs *)

\* lists of elements of length 0..n
RECURSIVE ElementLists(_)
ElementLists(n) ==
    IF n = 0 THEN {<<>>}
    ELSE LET shorter == ElementLists(n - 1)
         IN  shorter \cup {Append(r, e) : r \in shorter, e \in Elements}

\* profiles as diagnose reads them: the inherent element and the element
\* distribution, a count per element or the empty default
FateProfiles ==
    [inherent_element : Elements,
     element_distribution : {EmptyDict} \cup [Elements -> 0..MaxCount]]

\* weather readings on both sides of every threshold, or no weather
WeatherInputs ==
    {[present |-> FALSE, temperature_celsius |-> 20, humidity_percent |-> 50]}
    \cup [present : {TRUE},
          temperature_celsius : {10, 11, 20, 21, 29, 30},
          humidity_percent : {30, 31, 69, 70}]

\* the eight compass directions, one the table does not know, or no compass
CompassInputs ==
    {[present |-> FALSE, cardinal_direction |-> ""]}
    \cup [present : {TRUE},
          cardinal_direction : (DOMAIN DIRECTION_ELEMENTS) \cup {"up"}]

\* birth datetimes before, in and after the first accepted year, at every
\* clock hour
BirthInputs == [year : {1899, 1900, 1993}, hour : 0..23]

\* the clock reading of datetime.now()
NowInputs == {[year |-> 1993, hour |-> 12]}

\* the exceptions the calendar library raises
BridgeErrors == {"ValueError"}

\* the i-th pillar of the sixty-pillar cycle the calendar bridge draws its
\* pillars from: stem and branch advance together
SexagenaryCycle(i) == <<STEMS[(i % 10) + 1], BRANCHES[(i % 12) + 1]>>

\* every pillar, for the day
DayPillars == {SexagenaryCycle(i) : i \in 0..59}

\* every seventh pillar, for the year, the month and the hour
OtherPillars == {SexagenaryCycle(7 * i) : i \in 0..8}

ModifierInputs ==
    [temperature_influence : {"hot", "cold", "moderate"},
     humidity_influence : {"wet", "dry", "moderate"},
     direction_element : Elements \cup {"NONE"}]

(* --------------------------------------------------------------- actions *)

NoCall == [op |-> "none"]

Idle == call.op = "none"

Init ==
    /\ ZI_WEI_TABLE = EmptyDict
    /\ IMBALANCE_MATRIX = InitialMatrix
    /\ engines = 0
    /\ call = NoCall

\* FateEngine(): __init__ runs _build_zi_wei_table on the class-level dict
NewFateEngine ==
    /\ Idle
    /\ engines < MaxEngines
    /\ engines' = engines + 1
    /\ ZI_WEI_TABLE' = BuildZiWeiTable(ZI_WEI_TABLE)
    /\ UNCHANGED <<IMBALANCE_MATRIX, call>>

\* one write of a construction that runs while other requests are served
\* (every rerun of main constructs a FateEngine): any key, in any order,
\* once a first construction has filled the dict
RewriteEntry ==
    /\ Idle
    /\ engines > 0
    /\ \E i \in DOMAIN BUREAUS, day \in LUNAR_DAYS :
          ZI_WEI_TABLE' = WriteEntry(ZI_WEI_TABLE, BUREAUS[i], day)
    /\ UNCHANGED <<IMBALANCE_MATRIX, engines, call>>

GetZiWeiLocation ==
    /\ Idle
    /\ engines > 0
    /\ \E lunar_day \in (1 - DayMargin)..(30 + DayMargin), bureau \in 1..7 :
          call' = [op |-> "get_zi_wei_location",
                   lunar_day |-> lunar_day, bureau |-> bureau,
                   result |-> get_zi_wei_location(ZI_WEI_TABLE, lunar_day, bureau)]
    /\ UNCHANGED <<ZI_WEI_TABLE, IMBALANCE_MATRIX, engines>>

GetTianFuLocation ==
    /\ Idle
    /\ engines > 0
    /\ \E zi_wei_idx \in 0..11 :
          call' = [op |-> "get_tian_fu_location", zi_wei_idx |-> zi_wei_idx,
                   result |-> get_tian_fu_location(zi_wei_idx)]
    /\ UNCHANGED <<ZI_WEI_TABLE, IMBALANCE_MATRIX, engines>>

PlaceAllStars ==
    /\ Idle
    /\ engines > 0
    /\ \E zi_wei_idx \in 0..11, tian_fu_idx \in 0..11 :
          call' = [op |-> "place_all_stars",
                   zi_wei_idx |-> zi_wei_idx, tian_fu_idx |-> tian_fu_idx,
                   result |-> place_all_stars(zi_wei_idx, tian_fu_idx)]
    /\ UNCHANGED <<ZI_WEI_TABLE, IMBALANCE_MATRIX, engines>>

GetLifePalaceBranch ==
    /\ Idle
    /\ engines > 0
    /\ \E lunar_month \in 1..12, hour_idx \in 0..11 :
          call' = [op |-> "get_life_palace_branch",
                   lunar_month |-> lunar_month, hour_idx |-> hour_idx,
                   result |-> get_life_palace_branch(lunar_month, hour_idx)]
    /\ UNCHANGED <<ZI_WEI_TABLE, IMBALANCE_MATRIX, engines>>

\* calculate_fate on a birth datetime, at a clock reading now, with a
\* calendar bridge that converts the datetime or raises
CalculateFate ==
    /\ Idle
    /\ engines > 0
    /\ \E birth_datetime \in BirthInputs, now \in NowInputs :
          \* the bridge is reached only by a birth datetime that passes the
          \* validation; what it would do with another one is left open
          \/ /\ _validate_birth_datetime(birth_datetime, now).raised
             /\ call' = calculate_fate(ZI_WEI_TABLE, birth_datetime, now,
                            [raises |-> "none", year_stem |-> STEMS[1],
                             lunar_month |-> 1, lunar_day |-> 1])
          \/ /\ ~_validate_birth_datetime(birth_datetime, now).raised
             /\ \E i \in DOMAIN STEMS, lunar_month \in 1..12, lunar_day \in LUNAR_DAYS :
                   call' = calculate_fate(ZI_WEI_TABLE, birth_datetime, now,
                               [raises |-> "none", year_stem |-> STEMS[i],
                                lunar_month |-> lunar_month, lunar_day |-> lunar_day])
          \/ /\ ~_validate_birth_datetime(birth_datetime, now).raised
             /\ \E e \in BridgeErrors :
                   call' = calculate_fate(ZI_WEI_TABLE, birth_datetime, now,
                               [raises |-> e, year_stem |-> STEMS[1],
                                lunar_month |-> 1, lunar_day |-> 1])
    /\ UNCHANGED <<ZI_WEI_TABLE, IMBALANCE_MATRIX, engines>>

\* diagnose; the remedy list of the table entry is copied before it is
\* adjusted, so the table keeps its entries
Diagnose ==
    /\ Idle
    /\ \E fate \in FateProfiles, machine_element \in Elements,
          weather \in WeatherInputs, compass \in CompassInputs :
          /\ call' = diagnose(IMBALANCE_MATRIX, fate, machine_element,
                              [weather |-> weather, compass |-> compass])
          /\ IMBALANCE_MATRIX' = diagnose_IMBALANCE_MATRIX(
                                     IMBALANCE_MATRIX, fate, machine_element,
                                     [weather |-> weather, compass |-> compass])
    /\ UNCHANGED <<ZI_WEI_TABLE, engines>>

CalculateCombinedEnvironmentElement ==
    /\ Idle
    /\ \E machine_element \in Elements, weather \in WeatherInputs,
          compass \in CompassInputs :
          LET real_env == [weather |-> weather, compass |-> compass]
          IN  call' = [op |-> "_calculate_combined_environment_element",
                       machine_element |-> machine_element, real_env |-> real_env,
                       element_scores |-> element_scores(machine_element, real_env),
                       result |-> _calculate_combined_environment_element(
                                      machine_element, real_env)]
    /\ UNCHANGED <<ZI_WEI_TABLE, IMBALANCE_MATRIX, engines>>

AdjustRemedyForEnvironment ==
    /\ Idle
    /\ \E base_remedy \in ElementLists(MaxBaseLen), env_modifiers \in ModifierInputs,
          user_element \in Elements :
          call' = [op |-> "_adjust_remedy_for_environment",
                   base_remedy |-> base_remedy, env_modifiers |-> env_modifiers,
                   user_element |-> user_element,
                   reapplied |-> FALSE,
                   result |-> _adjust_remedy_for_environment(
                                  base_remedy, env_modifiers, user_element)]
    /\ UNCHANGED <<ZI_WEI_TABLE, IMBALANCE_MATRIX, engines>>

\* the adjustment applied to its own output, with the same modifiers and
\* user element
ReapplyAdjustment ==
    /\ call.op = "_adjust_remedy_for_environment"
    /\ ~call.reapplied
    /\ call' = [call EXCEPT
                   !.base_remedy = call.result,
                   !.reapplied = TRUE,
                   !.result = _adjust_remedy_for_environment(
                                  call.result, call.env_modifiers, call.user_element)]
    /\ UNCHANGED <<ZI_WEI_TABLE, IMBALANCE_MATRIX, engines>>

\* a caller reads .generates or .controls of an element ...
ReadRelation ==
    /\ Idle
    /\ \E e \in Elements, relation \in {"generates", "controls"} :
          call' = [op |-> "relation", relation |-> relation, start |-> e,
                   applied |-> 1,
                   result |-> IF relation = "generates" THEN generates(e)
                                                        ELSE controls(e)]
    /\ UNCHANGED <<ZI_WEI_TABLE, IMBALANCE_MATRIX, engines>>

\* ... and the same property of what it got, up to once per element
ReadRelationAgain ==
    /\ call.op = "relation"
    /\ call.applied < Len(Element)
    /\ call' = [call EXCEPT
                   !.applied = call.applied + 1,
                   !.result = IF call.relation = "generates"
                              THEN generates(call.result)
                              ELSE controls(call.result)]
    /\ UNCHANGED <<ZI_WEI_TABLE, IMBALANCE_MATRIX, engines>>

\* steps 13 and 14 of calculate_fate and the FateProfile built from them:
\* they read the four pillars of the bridge and nothing of the star placement
CalculateElementDistribution ==
    /\ Idle
    /\ \E year_pillar \in OtherPillars, month_pillar \in OtherPillars,
          day_pillar \in DayPillars, hour_pillar \in OtherPillars :
          LET element_dist == _calculate_element_distribution(
                                  <<year_pillar, month_pillar, day_pillar, hour_pillar>>)
              fate == [inherent_element |-> inherent_element(day_pillar),
                       element_distribution |-> element_dist]
          IN  call' = [op |-> "_calculate_element_distribution",
                       pillars |-> <<year_pillar, month_pillar, day_pillar, hour_pillar>>,
                       inherent_element |-> fate.inherent_element,
                       element_distribution |-> element_dist,
                       weakest_element |-> weakest_element(fate),
                       strongest_element |-> strongest_element(fate)]
    /\ UNCHANGED <<ZI_WEI_TABLE, IMBALANCE_MATRIX, engines>>

\* the caller takes the result
Return ==
    /\ ~Idle
    /\ call' = NoCall
    /\ UNCHANGED <<ZI_WEI_TABLE, IMBALANCE_MATRIX, engines>>

Next ==
    \/ NewFateEngine
    \/ RewriteEntry
    \/ GetZiWeiLocation
    \/ GetTianFuLocation
    \/ PlaceAllStars
    \/ GetLifePalaceBranch
    \/ CalculateFate
    \/ Return

Spec == Init /\ [][Next]_vars

NextAlchemist ==
    \/ Diagnose
    \/ CalculateCombinedEnvironmentElement
    \/ AdjustRemedyForEnvironment
    \/ ReapplyAdjustment
    \/ ReadRelation
    \/ ReadRelationAgain
    \/ Return

SpecAlchemist == Init /\ [][NextAlchemist]_vars

NextElements ==
    \/ CalculateElementDistribution
    \/ Return

SpecElements == Init /\ [][NextElements]_vars

(* ---------------------------------------------------------------- claims *)

\* C1: for a bureau in 2..6 and a lunar day in 1..30, get_zi_wei_location
\* returns the index of the quotient/remainder rule, which lies in 0..11;
\* (bureau 3, day 9) gives 4 and (bureau 2, day 1) gives 3.
C1_ZiWeiFollowsRule ==
    (call.op = "get_zi_wei_location" /\ call.bureau \in 2..6 /\ call.lunar_day \in 1..30)
    => LET b == call.bureau
           d == call.lunar_day
           q == d \div b
           r == d % b
           p == IF r = 0 THEN 3 + q - 1
                ELSE IF (q + 1) % 2 = 1
                     THEN (3 + (q + 1) - 1) + (b - r)
                     ELSE (3 + (q + 1) - 1) - (b - r)
       IN  /\ call.result = (p - 1) % 12
           /\ call.result \in 0..11
           /\ (b = 3 /\ d = 9) => call.result = 4
           /\ (b = 2 /\ d = 1) => call.result = 3

\* a lookup whose 1-based position is negative before the wrap: bureau 6, day 7
C1_Witness ==
    /\ call.op = "get_zi_wei_location"
    /\ call.bureau = 6 /\ call.lunar_day = 7
    /\ call.result = 10

\* C2: for anchors z and t in 0..11, place_all_stars returns exactly the
\* fourteen named stars, each on an index in 0..11, six at the offsets
\* 0,-1,-3,-4,-5,-8 from z and eight at 0,+1,+2,+3,+4,+5,+6,+10 from t.
C2_FourteenStarsAtOffsets ==
    call.op = "place_all_stars"
    => LET z == call.zi_wei_idx
           t == call.tian_fu_idx
           pos == call.result
       IN  /\ DOMAIN pos = MajorStar
           /\ Cardinality(DOMAIN pos) = 14
           /\ \A s \in DOMAIN pos : pos[s] \in 0..11
           /\ pos["ZI_WEI"] = z
           /\ pos["TIAN_JI"] = (z + 11) % 12
           /\ pos["TAI_YANG"] = (z + 9) % 12
           /\ pos["WU_QU"] = (z + 8) % 12
           /\ pos["TIAN_TONG"] = (z + 7) % 12
           /\ pos["LIAN_ZHEN"] = (z + 4) % 12
           /\ pos["TIAN_FU"] = t
           /\ pos["TAI_YIN"] = (t + 1) % 12
           /\ pos["TAN_LANG"] = (t + 2) % 12
           /\ pos["JU_MEN"] = (t + 3) % 12
           /\ pos["TIAN_XIANG"] = (t + 4) % 12
           /\ pos["TIAN_LIANG"] = (t + 5) % 12
           /\ pos["QI_SHA"] = (t + 6) % 12
           /\ pos["PO_JUN"] = (t + 10) % 12

\* both anchors wrap: LIAN_ZHEN goes below 0 from z = 3, PO_JUN beyond 11 from t = 9
C2_Witness ==
    /\ call.op = "place_all_stars"
    /\ call.zi_wei_idx = 3 /\ call.tian_fu_idx = 9
    /\ call.result["LIAN_ZHEN"] = 7
    /\ call.result["PO_JUN"] = 7

\* C3: in the secondary-anchor table 2 and 8 map to themselves and the
\* other ten indices map to a different index, so get_tian_fu_location
\* returns its argument exactly for 2 and 8, and the two anchors of a chart
\* coincide only there.
C3_TwoFixedPoints ==
    /\ DOMAIN TIAN_FU_MAP = 0..11
    /\ Cardinality({z \in DOMAIN TIAN_FU_MAP : TIAN_FU_MAP[z] = z}) = 2
    /\ call.op = "get_tian_fu_location"
       => (call.result = call.zi_wei_idx <=> call.zi_wei_idx \in {2, 8})
    /\ (call.op = "calculate_fate" /\ call.profile /\ call.zi_wei_idx = call.tian_fu_idx)
       => call.zi_wei_idx \in {2, 8}

\* the lookup of a fixed point
C3_Witness ==
    /\ call.op = "get_tian_fu_location"
    /\ call.zi_wei_idx = 8
    /\ call.result = 8

\* C4: for a lunar month in 1..12 and a double-hour index in 0..11,
\* get_life_palace_branch returns ((2 + month - 1) mod 12 - hour) mod 12,
\* which is in 0..11 also when the hour index exceeds the month position.
C4_LifePalaceBranch ==
    call.op = "get_life_palace_branch"
    => LET monthPos == (call.lunar_month + 1) % 12
       IN  /\ call.result \in 0..11
           /\ (call.result + call.hour_idx) % 12 = monthPos
           /\ call.hour_idx <= monthPos => call.result = monthPos - call.hour_idx
           /\ call.hour_idx > monthPos => call.result = monthPos - call.hour_idx + 12

\* month 11 has month position 0, below the hour index 5
C4_Witness ==
    /\ call.op = "get_life_palace_branch"
    /\ call.lunar_month = 11 /\ call.hour_idx = 5
    /\ call.result = 7

\* C5: WU_XING_JU has an entry for each of the 10 x 12 (year stem, life
\* palace branch) combinations and every value is in {2,3,4,5,6}; the bureau
\* of a chart is the entry of its year stem and life palace branch.
C5_BureauTableComplete ==
    /\ \A i \in DOMAIN STEMS, j \in DOMAIN BRANCHES :
          /\ <<STEMS[i], BRANCHES[j]>> \in DOMAIN WU_XING_JU
          /\ WU_XING_JU[<<STEMS[i], BRANCHES[j]>>] \in {2, 3, 4, 5, 6}
    /\ Cardinality({<<STEMS[i], BRANCHES[j]>> : i \in DOMAIN STEMS, j \in DOMAIN BRANCHES}) = 120
    /\ Cardinality(DOMAIN WU_XING_JU) = 120
    /\ (call.op = "calculate_fate" /\ call.profile)
       => call.bureau = WU_XING_JU[<<call.year_stem, call.life_palace_branch>>]

\* a chart whose bureau is read from the last entry of the table
C5_Witness ==
    /\ call.op = "calculate_fate"
    /\ call.profile
    /\ call.year_stem = "gui" /\ call.life_palace_branch = "hai"
    /\ call.bureau = 6

\* C6: on a calendar result with one of the 10 year stems, a lunar month in
\* 1..12, a lunar day in 1..30 and a clock hour in 0..23, calculate_fate
\* reads the bureau, the primary anchor and the secondary anchor from their
\* tables, never from the defaults of dict.get, and returns a bureau in
\* 2..6 and positions for all fourteen stars.
C6_NoLookupMiss ==
    (call.op = "calculate_fate" /\ call.error # "InvalidBirthDataError"
                                /\ ~call.wrapped)
    => /\ call.profile
       /\ ~call.ju_miss
       /\ ~call.zi_wei_miss
       /\ ~call.tian_fu_miss
       /\ call.bureau \in 2..6
       /\ call.bureau = WU_XING_JU[<<call.year_stem, call.life_palace_branch>>]
       /\ call.zi_wei_idx = ZI_WEI_TABLE[<<call.bureau, call.lunar_day>>]
       /\ call.tian_fu_idx = TIAN_FU_MAP[call.zi_wei_idx]
       /\ DOMAIN call.star_positions = MajorStar
       /\ \A s \in MajorStar : call.star_positions[s] \in 0..11

\* a chart whose bureau and primary anchor equal the defaults 3 and 2
\* although both were found in the tables
C6_Witness ==
    /\ call.op = "calculate_fate"
    /\ call.profile
    /\ call.lunar_day = 3
    /\ call.bureau = 3
    /\ call.zi_wei_idx = 2
    /\ ~call.ju_miss /\ ~call.zi_wei_miss /\ ~call.tian_fu_miss

\* C7: IMBALANCE_MATRIX has exactly 20 entries, one for every ordered pair
\* of distinct elements and none for a pair of equal elements, so diagnose
\* takes the fallback path exactly when the user's inherent element equals
\* the combined environment element.
C7_TwentyDistinctPairs ==
    /\ DOMAIN IMBALANCE_MATRIX = {pair \in Elements \X Elements : pair[1] # pair[2]}
    /\ Cardinality(DOMAIN IMBALANCE_MATRIX) = 20
    /\ \A e \in Elements : <<e, e>> \notin DOMAIN IMBALANCE_MATRIX
    /\ call.op = "diagnose"
       => (call.fallback <=> call.user_element = call.env_element)

\* a Fire user in an environment that scores Fire highest
C7_Witness ==
    /\ call.op = "diagnose"
    /\ call.fallback
    /\ call.user_element = "FIRE" /\ call.env_element = "FIRE"

\* C8 as stated: on the fallback path the base remedy is [weakest element,
\* generating element of the inherent element], the generating element being
\* the one the empty-remedy fallback uses.
C8_Original ==
    (call.op = "diagnose" /\ call.fallback)
    => /\ Len(call.base_remedy) = 2
       /\ call.base_remedy[2] = _get_generating_element(call.user_element)

\* C8 amended: on the fallback path the base remedy is [weakest element of
\* the profile, the element the inherent element generates]; the inherent
\* element is the generating element of that second entry, which is never
\* the generating element of the inherent element.
C8_FallbackRemedy ==
    (call.op = "diagnose" /\ call.fallback)
    => LET dist == call.fate.element_distribution
           w == call.base_remedy[1]
           g == call.base_remedy[2]
           Before(a, b) == \E i, j \in DOMAIN Element :
                              i < j /\ Element[i] = a /\ Element[j] = b
       IN  /\ Len(call.base_remedy) = 2
           /\ call.user_element = call.env_element
           /\ IF DOMAIN dist = {}
              THEN w = "EARTH"
              ELSE /\ \A e \in DOMAIN dist : dist[w] <= dist[e]
                   /\ \A e \in DOMAIN dist : Before(e, w) => dist[e] > dist[w]
           /\ g \in Elements
           /\ _get_generating_element(g) = call.user_element
           /\ g # _get_generating_element(call.user_element)

\* a Metal user in a Metal environment whose chart lacks Wood: the second
\* entry is Water, which Metal generates, and not Earth, which generates Metal
C8_Witness ==
    /\ call.op = "diagnose"
    /\ call.fallback
    /\ call.user_element = "METAL"
    /\ call.base_remedy = <<"WOOD", "WATER">>

C10_RemedyLength ==
    /\ call.op = "diagnose"
       => /\ Len(call.remedy_elements) \in 1..3
          /\ call.valid
    /\ call.op = "_adjust_remedy_for_environment"
       => Len(call.result) \in 1..3

\* a diagnosis in a hot, wet environment whose two-element base remedy grew
\* to the limit of three
C10_Witness ==
    /\ call.op = "diagnose"
    /\ call.env_modifiers.temperature_influence = "hot"
    /\ call.env_modifiers.humidity_influence = "wet"
    /\ Len(call.base_remedy) = 2
    /\ Len(call.remedy_elements) = 3


\* C11: the remedy adjustment is idempotent: applied to its own output with
\* the same modifiers and user element, for a first base remedy of any
\* length 0..3, it returns that output unchanged.
C11_AdjustIdempotent ==
    (call.op = "_adjust_remedy_for_environment" /\ call.reapplied)
    => call.result = call.base_remedy

\* the second pass over [Fire, Water, Earth], which the first pass made of
\* [Fire] in a hot and wet environment by appending Water and then Earth
C11_Witness ==
    /\ call.op = "_adjust_remedy_for_environment"
    /\ call.reapplied
    /\ call.env_modifiers.temperature_influence = "hot"
    /\ call.env_modifiers.humidity_influence = "wet"
    /\ call.base_remedy = <<"FIRE", "WATER", "EARTH">>
    /\ call.result = <<"FIRE", "WATER", "EARTH">>


\* C12 as stated: the five scores sum to 100 hundredths before the maximum
\* is taken, for every machine element, weather and direction.
C12_Original ==
    call.op = "_calculate_combined_environment_element"
    => LET s == call.element_scores
       IN  s["METAL"] + s["WOOD"] + s["WATER"] + s["FIRE"] + s["EARTH"] = 100

\* C12 amended: the five scores sum to 100 hundredths when there is no
\* weather or the humidity is strictly between 30 and 70, and to 110
\* hundredths when there is weather with humidity >= 70 or <= 30, whatever
\* the machine element, the temperature and the direction are.
C12_ScoreSum ==
    call.op = "_calculate_combined_environment_element"
    => LET s == call.element_scores
           w == call.real_env.weather
           total == s["METAL"] + s["WOOD"] + s["WATER"] + s["FIRE"] + s["EARTH"]
           nudged == w.present /\ (w.humidity_percent >= 70 \/ w.humidity_percent <= 30)
       IN  /\ \A e \in Elements : s[e] >= 0
           /\ nudged => total = 110
           /\ ~nudged => total = 100

\* a dry day facing a direction the table does not know: 30 + 35 + 5 + 5 + 35
C12_Witness ==
    /\ call.op = "_calculate_combined_environment_element"
    /\ call.real_env.weather.present
    /\ call.real_env.weather.humidity_percent = 30
    /\ call.real_env.compass.present
    /\ call.real_env.compass.cardinal_direction = "up"
    /\ LET s == call.element_scores
       IN  s["METAL"] + s["WOOD"] + s["WATER"] + s["FIRE"] + s["EARTH"] = 110

\* C13: _calculate_combined_environment_element returns an element of
\* maximal score, and of several such elements the one that comes first in
\* the order Metal, Wood, Water, Fire, Earth: every element before the
\* result scores strictly less, and Water wins over Fire when both hold 35
\* and the machine element holds 30.
C13_FirstMaximum ==
    call.op = "_calculate_combined_environment_element"
    => LET s == call.element_scores
           Index(x) == CHOOSE i \in DOMAIN Element : Element[i] = x
       IN  /\ call.result \in Elements
           /\ \A x \in Elements : s[x] <= s[call.result]
           /\ \A x \in Elements : Index(x) < Index(call.result) => s[x] < s[call.result]
           /\ (s["WATER"] = 35 /\ s["FIRE"] = 35 /\ s[call.machine_element] = 30)
              => call.result = "WATER"

\* a cold day facing south on a Metal machine: Water 35, Fire 35, Metal 30
C13_Witness ==
    /\ call.op = "_calculate_combined_environment_element"
    /\ call.machine_element = "METAL"
    /\ call.element_scores["WATER"] = 35
    /\ call.element_scores["FIRE"] = 35
    /\ call.element_scores["METAL"] = 30
    /\ call.result = "WATER"


\* C14: calculate_fate fails with InvalidBirthDataError exactly when the
\* birth year is below 1900 or the birth datetime is later than the current
\* time; the check runs before the calendar bridge is called and no profile
\* is produced; year 1900 and a datetime equal to now are accepted.
C14_InvalidBirthData ==
    call.op = "calculate_fate"
    => LET dt == call.birth_datetime
           late == \/ dt.year > call.now.year
                   \/ (dt.year = call.now.year /\ dt.hour > call.now.hour)
           rejected == call.error = "InvalidBirthDataError"
       IN  /\ rejected <=> (dt.year < 1900 \/ late)
           /\ rejected => (call.bridge_calls = 0 /\ ~call.profile)
           /\ (dt.year = 1900 \/ dt = call.now) => ~rejected
           /\ ~rejected => call.bridge_calls = 1

\* a birth at the very clock reading of the call, accepted and converted
C14_Witness ==
    /\ call.op = "calculate_fate"
    /\ call.birth_datetime = call.now
    /\ call.error = "none"
    /\ call.profile

C16_Original ==
    (/\ call.op = "get_zi_wei_location"
     /\ (call.bureau \notin 2..6 \/ call.lunar_day \notin 1..30))
    => call.result \notin 0..11

\* C17: get_zi_wei_location clamps the lunar day to [1,30] before the
\* lookup: for every bureau in 2..6 a day below 1 gives the table entry of
\* day 1, a day above 30 the entry of day 30, and a day in 1..30 its own
\* entry.
C17_DayClamped ==
    (call.op = "get_zi_wei_location" /\ call.bureau \in 2..6)
    => /\ call.lunar_day < 1 => call.result = ZI_WEI_TABLE[<<call.bureau, 1>>]
       /\ call.lunar_day > 30 => call.result = ZI_WEI_TABLE[<<call.bureau, 30>>]
       /\ call.lunar_day \in 1..30
          => call.result = ZI_WEI_TABLE[<<call.bureau, call.lunar_day>>]
       /\ call.result = ZiWeiPosition(call.bureau,
                                      Min2(Max2(call.lunar_day, 1), 30))

\* bureau 4 at a day past the thirtieth: the entry of day 30, branch 7,
\* not the default 2
C17_Witness ==
    /\ call.op = "get_zi_wei_location"
    /\ call.bureau = 4
    /\ call.lunar_day > 30
    /\ call.result = 7


\* C18: for every element E, generates applied five times gives E and
\* controls applied five times gives E; no element is its own generates or
\* controls, and fewer than five applications never come back to E (each
\* relation is one cycle through the five elements).
C18_FiveCycles ==
    call.op = "relation"
    => /\ call.applied = 5 => call.result = call.start
       /\ call.applied = 1 => call.result # call.start
       /\ call.applied \in 1..4 => call.result # call.start
       /\ call.result \in Elements

\* Earth read through controls five times: Water, Fire, Metal, Wood, Earth
C18_Witness ==
    /\ call.op = "relation"
    /\ call.relation = "controls"
    /\ call.start = "EARTH"
    /\ call.applied = 5
    /\ call.result = "EARTH"


\* C19: for each of the 20 ordered pairs (user, env) of distinct elements
\* the remedy list of the IMBALANCE_MATRIX entry has one or two elements and
\* names neither the user element nor the env element of its key; so does
\* the base remedy diagnose takes from the table.
C19_RemedyAvoidsKey ==
    /\ \A pair \in {p \in Elements \X Elements : p[1] # p[2]} :
          /\ pair \in DOMAIN IMBALANCE_MATRIX
          /\ LET remedy == IMBALANCE_MATRIX[pair].remedy
             IN  /\ Len(remedy) \in {1, 2}
                 /\ \A i \in DOMAIN remedy :
                       remedy[i] \in Elements \ {pair[1], pair[2]}
    /\ (call.op = "diagnose" /\ ~call.fallback)
       => /\ Len(call.base_remedy) \in {1, 2}
          /\ \A i \in DOMAIN call.base_remedy :
                call.base_remedy[i] \notin {call.user_element, call.env_element}

\* a Metal user in a Wood environment: the one entry with a single remedy
C19_Witness ==
    /\ call.op = "diagnose"
    /\ ~call.fallback
    /\ call.user_element = "METAL" /\ call.env_element = "WOOD"
    /\ call.base_remedy = <<"WATER">>

\* C20: the table is not symmetric: (Metal, Fire) and (Fire, Metal) are
\* both keys, and their remedy lists differ (as lists: the same two elements
\* in opposite order, so the first remedy differs); diagnose hands out the
\* list of the pair in the order (user, env).
C20_NotSymmetric ==
    /\ <<"METAL", "FIRE">> \in DOMAIN IMBALANCE_MATRIX
    /\ <<"FIRE", "METAL">> \in DOMAIN IMBALANCE_MATRIX
    /\ IMBALANCE_MATRIX[<<"METAL", "FIRE">>].remedy
         # IMBALANCE_MATRIX[<<"FIRE", "METAL">>].remedy
    /\ IMBALANCE_MATRIX[<<"METAL", "FIRE">>].remedy[1]
         # IMBALANCE_MATRIX[<<"FIRE", "METAL">>].remedy[1]
    /\ (call.op = "diagnose" /\ {call.user_element, call.env_element} = {"METAL", "FIRE"})
       => /\ call.base_remedy
               = IMBALANCE_MATRIX[<<call.user_element, call.env_element>>].remedy
          /\ call.base_remedy
               # IMBALANCE_MATRIX[<<call.env_element, call.user_element>>].remedy

\* a Fire user in a Metal environment is given Earth first, then Water
C20_Witness ==
    /\ call.op = "diagnose"
    /\ call.user_element = "FIRE" /\ call.env_element = "METAL"
    /\ call.base_remedy = <<"EARTH", "WATER">>


\* C21: for four pillars of two valid symbols each the element distribution
\* counts each of the eight symbols once under its table element (the counts
\* sum to 8, the inherent element, that of the day stem, has count >= 1);
\* weakest_element and strongest_element are of least and greatest count,
\* and no element earlier in the enum order has the same count.
C21_ElementDistribution ==
    call.op = "_calculate_element_distribution"
    => LET d == call.element_distribution
           p == call.pillars
           Count(e) == Cardinality({k \in DOMAIN p : STEM_ELEMENTS[p[k][1]] = e})
                       + Cardinality({k \in DOMAIN p : BRANCH_ELEMENTS[p[k][2]] = e})
           Index(e) == CHOOSE i \in DOMAIN Element : Element[i] = e
           w == call.weakest_element
           s == call.strongest_element
       IN  /\ DOMAIN d = Elements
           /\ \A el \in Elements : d[el] = Count(el)
           /\ d["METAL"] + d["WOOD"] + d["WATER"] + d["FIRE"] + d["EARTH"] = 8
           /\ call.inherent_element = STEM_ELEMENTS[p[3][1]]
           /\ d[call.inherent_element] >= 1
           /\ \A el \in Elements : d[w] <= d[el] /\ d[el] <= d[s]
           /\ \A el \in Elements : Index(el) < Index(w) => d[el] > d[w]
           /\ \A el \in Elements : Index(el) < Index(s) => d[el] < d[s]

\* a chart of a Wood day stem with neither Metal nor Fire, Wood the most
\* frequent: the tie of the two absent elements goes to Metal
C21_Witness ==
    /\ call.op = "_calculate_element_distribution"
    /\ call.element_distribution["METAL"] = 0
    /\ call.element_distribution["FIRE"] = 0
    /\ call.weakest_element = "METAL"
    /\ call.strongest_element = "WOOD"
    /\ call.inherent_element = "WOOD"


\* C22 (as stated): for each of the 10 year stems SI_HUA has exactly the four
\* roles, and every star it names is one of the fourteen major stars placed
\* by place_all_stars.
C22_Original ==
    /\ DOMAIN SI_HUA = {STEMS[i] : i \in DOMAIN STEMS}
    /\ call.op = "calculate_fate" /\ call.profile
       => /\ DOMAIN call.si_hua = {"hua_lu", "hua_quan", "hua_ke", "hua_ji"}
          /\ \A h \in DOMAIN call.si_hua :
                call.si_hua[h] \in DOMAIN call.star_positions

\* C22 (amended): for each of the 10 year stems SI_HUA has exactly the four
\* roles, held by four different stars, and every star it names is one of
\* the fourteen major stars or one of wen chang, wen qu, zuo fu, you bi,
\* which place_all_stars does not place; the stems bing, wu, ji, xin and ren
\* name such a star, and the roles reported for the life palace name placed
\* stars only.
C22_FourRoles ==
    /\ DOMAIN SI_HUA = {STEMS[i] : i \in DOMAIN STEMS}
    /\ call.op = "calculate_fate" /\ call.profile
       => LET unplaced == {h \in DOMAIN call.si_hua :
                              call.si_hua[h] \notin DOMAIN call.star_positions}
          IN  /\ DOMAIN call.si_hua = {"hua_lu", "hua_quan", "hua_ke", "hua_ji"}
              /\ Cardinality({call.si_hua[h] : h \in DOMAIN call.si_hua}) = 4
              /\ \A h \in DOMAIN call.si_hua :
                    call.si_hua[h] \in MajorStar
                                       \cup {"WEN_CHANG", "WEN_QU", "ZUO_FU", "YOU_BI"}
              /\ DOMAIN call.star_positions = MajorStar
              /\ (unplaced # {}) <=> call.year_stem \in {"bing", "wu", "ji", "xin", "ren"}
              /\ unplaced \subseteq {"hua_ke", "hua_ji"}
              /\ \A h \in DOMAIN call.si_hua_in_life :
                    /\ call.si_hua_in_life[h] = call.si_hua[h]
                    /\ call.star_positions[call.si_hua[h]] = call.life_palace_idx

\* a xin year, whose hua ke and hua ji stars are wen qu and wen chang, with
\* ju men, its hua lu star, in the life palace
C22_Witness ==
    /\ call.op = "calculate_fate" /\ call.profile
    /\ call.year_stem = "xin"
    /\ call.si_hua["hua_ke"] = "WEN_QU" /\ call.si_hua["hua_ji"] = "WEN_CHANG"
    /\ DOMAIN call.si_hua_in_life = {"hua_lu"}


\* C23: for every clock hour in 0..23 _get_hour_index gives 0 for hour 23
\* and ((hour + 1) div 2) mod 12 otherwise; the result is in 0..11, the
\* special case agrees with the general formula, and the index k is that of
\* exactly two clock hours, 2k - 1 (23 for k = 0) and 2k.
C23_HourIndex ==
    (call.op = "calculate_fate" /\ call.profile)
    => LET hour == call.birth_datetime.hour
           k == call.lunar_hour
       IN  /\ hour \in 0..23
           /\ call.hour = hour
           /\ k = (IF hour = 23 THEN 0 ELSE ((hour + 1) \div 2) % 12)
           /\ k = ((hour + 1) \div 2) % 12
           /\ k \in 0..11
           /\ hour \in {(2 * k - 1) % 24, 2 * k}
           /\ Cardinality({h \in 0..23 : _get_hour_index(h) = k}) = 2

\* a birth in the last clock hour of the day falls in the first double hour
C23_Witness ==
    /\ call.op = "calculate_fate" /\ call.profile
    /\ call.birth_datetime.hour = 23
    /\ call.lunar_hour = 0


\* C24: once a first FateEngine has been constructed, no later construction,
\* no single write of one and no lookup changes the contents of the
\* class-level ZI_WEI_TABLE, and every get_zi_wei_location returns what the
\* table of the first construction holds for its (clamped day, bureau).
C24_TableReadOnly ==
    /\ [][engines >= 1 => ZI_WEI_TABLE' = ZI_WEI_TABLE]_vars
    /\ [](call.op = "get_zi_wei_location"
          => call.result = DictGet(BuildZiWeiTable(EmptyDict),
                                   <<call.bureau, Min2(Max2(call.lunar_day, 1), 30)>>, 2))

\* a lookup served by the table after a second construction
C24_Witness ==
    /\ engines = 2
    /\ call.op = "get_zi_wei_location"
    /\ call.bureau = 6 /\ call.lunar_day = 30
    /\ call.result = ZI_WEI_TABLE[<<6, 30>>]
    /\ call.result = 6


C26_Original ==
    (call.op = "calculate_fate" /\ call.profile)
    => LET Rank(s) == CHOOSE i \in DOMAIN star_priority : star_priority[i] = s
       IN  /\ call.major_star \in MajorStar
           /\ call.star_positions[call.major_star] = call.life_palace_idx
           /\ \A s \in MajorStar :
                 call.star_positions[s] = call.life_palace_idx
                 => Rank(call.major_star) <= Rank(s)


\* C27: for every primary anchor z in 0..11 and the secondary anchor
\* get_tian_fu_location(z), the six stars of the primary group stand on six
\* different branches and the eight of the secondary group on eight
\* different branches, so no branch holds more than two of the fourteen.
C27_GroupsSpread ==
    LET primary == {"ZI_WEI", "TIAN_JI", "TAI_YANG", "WU_QU", "TIAN_TONG", "LIAN_ZHEN"}
        secondary == MajorStar \ primary
        Spread(pos) ==
            /\ Cardinality({pos[s] : s \in primary}) = 6
            /\ Cardinality({pos[s] : s \in secondary}) = 8
            /\ \A b \in 0..11 : Cardinality({s \in MajorStar : pos[s] = b}) <= 2
    IN  /\ (/\ call.op = "place_all_stars"
            /\ call.tian_fu_idx = TIAN_FU_MAP[call.zi_wei_idx])
           => Spread(call.result)
        /\ (call.op = "calculate_fate" /\ call.profile)
           => (/\ call.tian_fu_idx = TIAN_FU_MAP[call.zi_wei_idx]
               /\ Spread(call.star_positions))

\* the anchors 7 and 9: two stars each on the branches 2, 3, 7 and 11, none
\* on 5 and 8
C27_Witness ==
    /\ call.op = "place_all_stars"
    /\ call.zi_wei_idx = 7 /\ call.tian_fu_idx = 9
    /\ {s \in MajorStar : call.result[s] = 7} = {"ZI_WEI", "PO_JUN"}
    /\ {s \in MajorStar : call.result[s] = 5} = {}


\* C28 (as stated): the remedy list of every Diagnosis diagnose returns
\* holds no element twice, on the table path and on the fallback path.  On
\* the fallback path the base remedy is [weakest element, element the
\* inherent element generates], and the two can be the same element.
C28_Original ==
    call.op = "diagnose"
    => \A i \in DOMAIN call.remedy_elements, j \in DOMAIN call.remedy_elements :
          i # j => call.remedy_elements[i] # call.remedy_elements[j]


C30_TableUnchanged ==
    /\ [][IMBALANCE_MATRIX' = IMBALANCE_MATRIX]_vars
    /\ [](IMBALANCE_MATRIX = IMBALANCE_MATRIX_LITERAL)
    /\ []((call.op = "diagnose" /\ ~call.fallback)
          => call.base_remedy
               = IMBALANCE_MATRIX_LITERAL[<<call.user_element, call.env_element>>].remedy)

\* a cold reading for a Metal user in a Wood environment: the Diagnosis
\* holds Water and the appended Fire, the entry still Water alone
C30_Witness ==
    /\ call.op = "diagnose"
    /\ call.user_element = "METAL" /\ call.env_element = "WOOD"
    /\ call.env_modifiers.temperature_influence = "cold"
    /\ call.remedy_elements = <<"WATER", "FIRE">>
    /\ IMBALANCE_MATRIX[<<"METAL", "WOOD">>].remedy = <<"WATER">>

====
